---- MODULE Spec2Model ----
(***************************************************************************)
(* Model of the litpack project generator CLI.                             *)
(*                                                                         *)
(* The repository holds two entry scripts: src/index.js (an ES module with *)
(* spinners, progress bars and a stable-branch checkout) and               *)
(* src/unnamed/part_000 (a CommonJS script without them).  The variable    *)
(* `variant` says which script runs.                                       *)
(*                                                                         *)
(* One action is one turn of the Node.js event loop: the synchronous code  *)
(* from one suspension point (an await, a readline answer, a timer or a    *)
(* child-process callback) to the next, including the promise reactions    *)
(* (microtasks) it triggers.  execSync blocks the loop, so the commands it  *)
(* runs are part of the turn that calls it.                                *)
(*                                                                         *)
(* Runtime facts the model relies on:                                      *)
(*  - a rejected promise nobody handles ends the process with exit code 1  *)
(*    (the default of Node.js since version 15);                           *)
(*  - `require` is not defined in an ES module;                            *)
(*  - a started ora spinner holds an interval timer until it is stopped,   *)
(*    and the process does not end by itself while a timer is active;      *)
(*  - ProgressBar.tick(n) adds n to curr and sets complete once            *)
(*    curr >= total.                                                       *)
(* Strings are sequences of one-character strings.                         *)
(***************************************************************************)
EXTENDS Integers, Sequences, FiniteSets, TLC

VARIABLES
    variant,            \* which entry script runs: "index" or "part_000"
    inquirerAvailable,  \* environment: the inquirer package can be resolved
    argv,               \* process.argv[2], or Undefined
    fs0,                \* the filesystem under cwd when the run started
    fs,                 \* the filesystem under cwd: directory path -> contents
    projectName,        \* the module-level projectName
    packageManager,     \* the packageManager constant of the main function
    pc,                 \* the suspension point the main function waits at
    lastLine,           \* the line readline read last from standard input
    collided,           \* the directory checkFolderExists found, or NoDir
    updatedPackageJson, \* the local of updatePackageJson between read and write
    installBar,         \* curr of the progress bar of the install step
    installInterval,    \* the 500 ms interval of the install step is active
    cloneBar,           \* curr of the progress bar of the clone step
    callerInterval,     \* the 500 ms interval of the main function is active
    cloneInterval,      \* the 100 ms interval of cloneRepo is active
    spinners,           \* the ora spinners that were started and not stopped
    clonePromise,       \* state of the promise returned by cloneRepo
    settleCalls,        \* number of resolve()/reject() calls on that promise
    exited,             \* the process has ended
    exitCode,           \* its exit code, meaningful once exited
    log                 \* the steps taken and the messages printed, in order

vars == <<variant, inquirerAvailable, argv, fs0, fs, projectName,
          packageManager, pc, lastLine, collided, updatedPackageJson, installBar,
          installInterval, cloneBar, callerInterval, cloneInterval, spinners,
          clonePromise, settleCalls, exited, exitCode, log>>

envVars   == <<variant, inquirerAvailable, argv, fs0>>
timerVars == <<installBar, installInterval, cloneBar, callerInterval,
               cloneInterval>>
barVars   == <<installBar, cloneBar>>

----------------------------------------------------------------------------
(* Bounds of the model *)

MaxLineLen == 2        \* longest line typed at a prompt or given as argument
MaxPieces  == 4        \* longest package.json text, in pieces, of SpecUpdate
MaxNameLen == 2        \* longest project name of SpecUpdate

(* Program constants *)

BarTotal       == 100  \* total of both progress bars
InstallTickLen == 10   \* bar.tick(10) of the install step's interval
CallerTickLen  == 10   \* bar.tick(10) of the main function's clone interval
CloneTickLen   == 1    \* bar.tick() of cloneRepo's interval

choices == {"npm", "yarn", "pnpm", "bun"}

----------------------------------------------------------------------------
(* Strings *)

Undefined == <<"undefined">>      \* the JavaScript value undefined
NoFile    == <<"ENOENT">>         \* no package.json in a directory
NoDir     == <<<<"ENOENT">>>>     \* no directory

LineChars == {"a", " ", "/"}

RECURSIVE SeqsUpTo(_, _)
SeqsUpTo(S, n) ==
    IF n = 0 THEN {<<>>}
    ELSE LET shorter == SeqsUpTo(S, n - 1)
         IN  shorter \cup {Append(s, c) : s \in shorter, c \in S}

Lines == SeqsUpTo(LineChars, MaxLineLen)

WhiteSpace     == {" ", "\t", "\n", "\r"}
LineTerminator == {"\n", "\r"}

RECURSIVE TrimStart(_)
TrimStart(s) ==
    IF s # <<>> /\ Head(s) \in WhiteSpace THEN TrimStart(Tail(s)) ELSE s

RECURSIVE TrimEnd(_)
TrimEnd(s) ==
    IF s # <<>> /\ s[Len(s)] \in WhiteSpace
    THEN TrimEnd(SubSeq(s, 1, Len(s) - 1))
    ELSE s

\* trim as a plausible slip would have it: only the leading white space goes
trim_startOnly(s) == TrimStart(s)

trim(s) == TrimEnd(TrimStart(s))

\* !projectName
Falsy(s) == s = Undefined \/ s = <<>>

\* the pieces of s between occurrences of the character sep, empty ones kept
RECURSIVE Split(_, _)
Split(s, sep) ==
    IF \A i \in 1..Len(s) : s[i] # sep THEN <<s>>
    ELSE LET i == CHOOSE k \in 1..Len(s) :
                      s[k] = sep /\ \A j \in 1..(k - 1) : s[j] # sep
         IN  <<SubSeq(s, 1, i - 1)>> \o Split(SubSeq(s, i + 1, Len(s)), sep)

NonEmpty(ss) == SelectSeq(ss, LAMBDA p : p # <<>>)

----------------------------------------------------------------------------
(* Paths, the filesystem and the shell *)

\* path.join(process.cwd(), name), as the segments below cwd: separators
\* collapse, so empty segments vanish; <<>> is cwd itself
targetDirOf(name) == NonEmpty(Split(name, "/"))

\* the words the shell makes of the ${targetDir} part of a command line:
\* the first one carries the cwd prefix and is a word even when the name
\* starts with a blank
ShellWords(name) ==
    LET w == Split(name, " ") IN <<Head(w)>> \o NonEmpty(Tail(w))

EmptyDir == [pkg |-> NoFile, repo |-> "none"]

IsPrefix(p, q) == Len(p) <= Len(q) /\ SubSeq(q, 1, Len(p)) = p

Prefixes(p) == {SubSeq(p, 1, k) : k \in 0..Len(p)}

IsEmptyDir(f, p) ==
    /\ p \in DOMAIN f
    /\ f[p] = EmptyDir
    /\ \A q \in DOMAIN f : IsPrefix(p, q) => q = p

\* fs.mkdir(p, { recursive: true }): missing directories of the path are
\* created, existing ones are left as they are
MkdirRecursive(f, p) ==
    [q \in DOMAIN f \cup Prefixes(p) |-> IF q \in DOMAIN f THEN f[q] ELSE EmptyDir]

\* the package.json of the template repository
Key == <<"\"", "n", "a", "m", "e", "\"", ":">>
TemplatePkg == <<"{">> \o Key \o <<" ", "\"", "x", "\"", "}">>
\* a package.json a user keeps in a directory that exists before the run
UserPkg == <<"{">> \o Key \o <<"\"", "u", "\"", "}">>

\* git clone <url> <words>: git accepts one directory argument, and clones
\* only into a directory that is missing or empty
CanClone(f, name) ==
    /\ Len(ShellWords(name)) = 1
    /\ LET d == targetDirOf(Head(ShellWords(name)))
       IN  d \notin DOMAIN f \/ IsEmptyDir(f, d)

GitClone(f, name) ==
    LET d == targetDirOf(Head(ShellWords(name)))
    IN  [MkdirRecursive(f, d) EXCEPT ![d] = [pkg |-> TemplatePkg, repo |-> "default"]]

GitCheckout(f, name) ==
    LET d == targetDirOf(Head(ShellWords(name)))
    IN  [f EXCEPT ![d].repo = "stable"]

----------------------------------------------------------------------------
(* String.prototype.replace with the pattern /"name":\s*"(.*?)"/ *)

HasAt(t, i, w) == i + Len(w) - 1 <= Len(t) /\ SubSeq(t, i, i + Len(w) - 1) = w

\* \s* is greedy: the first index from k on that holds no white space
RECURSIVE SkipWhiteSpace(_, _)
SkipWhiteSpace(t, k) ==
    IF k <= Len(t) /\ t[k] \in WhiteSpace THEN SkipWhiteSpace(t, k + 1) ELSE k

\* (.*?)" is lazy and . matches no line terminator: the index of the first
\* quote from r on, 0 when a line terminator or the end of the text comes first
RECURSIVE LazyToQuote(_, _)
LazyToQuote(t, r) ==
    IF r > Len(t) THEN 0
    ELSE IF t[r] = "\"" THEN r
    ELSE IF t[r] \in LineTerminator THEN 0
    ELSE LazyToQuote(t, r + 1)

\* the match starting at index i: [open, close] are the indexes of the quotes
\* around the group, close = 0 when there is no match at i
MatchAt(t, i) ==
    IF ~HasAt(t, i, Key) THEN [open |-> 0, close |-> 0]
    ELSE LET q == SkipWhiteSpace(t, i + Len(Key))
         IN  IF q <= Len(t) /\ t[q] = "\""
             THEN [open |-> q, close |-> LazyToQuote(t, q + 1)]
             ELSE [open |-> 0, close |-> 0]

\* the pattern has no g flag: the leftmost match, 0 when there is none
RECURSIVE FirstMatch(_, _)
FirstMatch(t, i) ==
    IF i > Len(t) THEN 0
    ELSE IF MatchAt(t, i).close # 0 THEN i
    ELSE FirstMatch(t, i + 1)

\* GetSubstitution with one capture group: $$, $&, $`, $', $1, $01 and
\* $1 followed by a digit are expanded, everything else is literal
RECURSIVE GetSubstitution(_, _, _, _, _)
GetSubstitution(r, matched, group, before, after) ==
    IF r = <<>> THEN <<>>
    ELSE IF Head(r) # "$" \/ Len(r) = 1
         THEN <<Head(r)>> \o GetSubstitution(Tail(r), matched, group, before, after)
    ELSE LET c    == r[2]
             rest == SubSeq(r, 3, Len(r))
         IN  IF c = "$" THEN <<"$">> \o GetSubstitution(rest, matched, group, before, after)
             ELSE IF c = "&" THEN matched \o GetSubstitution(rest, matched, group, before, after)
             ELSE IF c = "`" THEN before \o GetSubstitution(rest, matched, group, before, after)
             ELSE IF c = "'" THEN after \o GetSubstitution(rest, matched, group, before, after)
             ELSE IF c = "1" THEN group \o GetSubstitution(rest, matched, group, before, after)
             ELSE IF c = "0" /\ rest # <<>> /\ Head(rest) = "1"
                  THEN group \o GetSubstitution(Tail(rest), matched, group, before, after)
             ELSE <<"$">> \o GetSubstitution(Tail(r), matched, group, before, after)

\* packageJson.replace(/"name":\s*"(.*?)"/, `"name": "${projectName}"`)
Replacement(name) == Key \o <<" ", "\"">> \o name \o <<"\"">>

ReplaceName(t, name) ==
    LET i == FirstMatch(t, 1)
    IN  IF i = 0 THEN t
        ELSE LET m      == MatchAt(t, i)
                 before == SubSeq(t, 1, i - 1)
                 after  == SubSeq(t, m.close + 1, Len(t))
             IN  before
                 \o GetSubstitution(Replacement(name), SubSeq(t, i, m.close),
                                    SubSeq(t, m.open + 1, m.close - 1), before, after)
                 \o after

----------------------------------------------------------------------------
(* The initial state *)

InitialFs ==
    LET cwd == <<>>
        a   == <<<<"a">>>>
    IN  { (cwd :> EmptyDir),
          (cwd :> EmptyDir) @@ (a :> EmptyDir),
          (cwd :> EmptyDir) @@ (a :> [pkg |-> UserPkg, repo |-> "none"]) }

Init ==
    /\ variant \in {"index", "part_000"}
    /\ inquirerAvailable \in BOOLEAN
    /\ argv \in Lines \cup {Undefined}
    /\ fs0 \in InitialFs
    /\ fs = fs0
    /\ projectName = argv
    /\ packageManager = "undefined"
    /\ pc = "start"
    /\ lastLine = <<>>
    /\ collided = NoDir
    /\ updatedPackageJson = <<>>
    /\ installBar = 0
    /\ installInterval = FALSE
    /\ cloneBar = 0
    /\ callerInterval = FALSE
    /\ cloneInterval = FALSE
    /\ spinners = {}
    /\ clonePromise = "none"
    /\ settleCalls = 0
    /\ exited = FALSE
    /\ exitCode = 0
    /\ log = <<>>

----------------------------------------------------------------------------
(* The end of the process *)

\* process.exit(code), and the end of the process on an unhandled rejection:
\* the process is gone, and its timers and spinners with it
Exit(code) ==
    /\ exited' = TRUE
    /\ exitCode' = code
    /\ pc' = "exited"
    /\ installInterval' = FALSE
    /\ callerInterval' = FALSE
    /\ cloneInterval' = FALSE
    /\ spinners' = {}

\* the event loop has nothing left to wait for once the main function has
\* returned: the process ends with exit code 0
eventLoopExit ==
    /\ pc = "done"
    /\ ~installInterval /\ ~callerInterval /\ ~cloneInterval
    /\ spinners = {}
    /\ exited' = TRUE
    /\ exitCode' = 0
    /\ pc' = "exited"
    /\ UNCHANGED <<envVars, fs, projectName, packageManager, lastLine, collided,
                   updatedPackageJson, timerVars, spinners, clonePromise,
                   settleCalls, log>>

----------------------------------------------------------------------------
(* Collecting the project name *)

\* the main function up to its first await
start ==
    /\ pc = "start"
    /\ pc' = IF Falsy(projectName) THEN "askName" ELSE "stat"
    /\ UNCHANGED <<envVars, fs, projectName, packageManager, lastLine, collided,
                   updatedPackageJson, timerVars, spinners, clonePromise,
                   settleCalls, exited, exitCode, log>>

\* src/index.js: the callback of rl.question in askForName
promptForProjectName ==
    /\ pc = "askName"
    /\ variant = "index"
    /\ \E line \in Lines :
          /\ lastLine' = line
          /\ IF trim(line) # <<>>
             THEN projectName' = trim(line) /\ pc' = "stat"
             ELSE projectName' = projectName /\ pc' = "askName"
    /\ UNCHANGED <<envVars, fs, packageManager, collided, updatedPackageJson,
                   timerVars, spinners, clonePromise, settleCalls, exited,
                   exitCode, log>>

\* src/unnamed/part_000: the callback of rl.question, asked once
promptForProjectName_part000 ==
    /\ pc = "askName"
    /\ variant = "part_000"
    /\ \E line \in Lines :
          /\ lastLine' = line
          /\ projectName' = trim(line)
          /\ pc' = "stat"
    /\ UNCHANGED <<envVars, fs, packageManager, collided, updatedPackageJson,
                   timerVars, spinners, clonePromise, settleCalls, exited,
                   exitCode, log>>

\* the continuation of checkFolderExists after fs.stat; statError is a
\* failure of stat with a code other than ENOENT
checkFolderExists ==
    /\ pc = "stat"
    /\ \E statError \in BOOLEAN :
          IF statError
          THEN /\ log' = Append(log, "error:stat")
               /\ Exit(1)
               /\ UNCHANGED <<collided, barVars>>
          ELSE /\ IF targetDirOf(projectName) \in DOMAIN fs
                  THEN /\ pc' = "askNewName"
                       /\ collided' = targetDirOf(projectName)
                       /\ log' = log \o <<"stat", "exists">>
                  ELSE /\ pc' = "selectPM"
                       /\ log' = Append(log, "stat")
                       /\ UNCHANGED collided
               /\ UNCHANGED <<timerVars, spinners, exited, exitCode>>
    /\ UNCHANGED <<envVars, fs, projectName, packageManager, lastLine,
                   updatedPackageJson, clonePromise, settleCalls>>

\* the re-prompt as a plausible slip would have it: the main function does not
\* take over the value checkFolderExists returns
promptForNewProjectName_discardsName ==
    /\ pc = "askNewName"
    /\ \E newName \in Lines : lastLine' = newName
    /\ log' = Append(log, "reprompt")
    /\ pc' = "selectPM"
    /\ UNCHANGED <<envVars, fs, projectName, packageManager, collided,
                   updatedPackageJson, timerVars, spinners, clonePromise,
                   settleCalls, exited, exitCode>>

\* the re-prompt as a plausible slip would have it: it asks again while the
\* name entered is empty or collides
promptForNewProjectName_validates ==
    /\ pc = "askNewName"
    /\ \E newName \in Lines :
          /\ lastLine' = newName
          /\ IF trim(newName) = <<>> \/ targetDirOf(trim(newName)) \in DOMAIN fs
             THEN UNCHANGED <<projectName, pc, log>>
             ELSE /\ projectName' = trim(newName)
                  /\ log' = Append(log, "reprompt")
                  /\ pc' = "selectPM"
    /\ UNCHANGED <<envVars, fs, packageManager, collided, updatedPackageJson,
                   timerVars, spinners, clonePromise, settleCalls, exited,
                   exitCode>>

\* the callback of rl.question in promptForNewProjectName, and the return of
\* checkFolderExists with its value
promptForNewProjectName ==
    /\ pc = "askNewName"
    /\ \E newName \in Lines :
          /\ lastLine' = newName
          /\ projectName' = trim(newName)
    /\ log' = Append(log, "reprompt")
    /\ pc' = "selectPM"
    /\ UNCHANGED <<envVars, fs, packageManager, collided, updatedPackageJson,
                   timerVars, spinners, clonePromise, settleCalls, exited,
                   exitCode>>

----------------------------------------------------------------------------
(* Selecting the package manager and installing inquirer *)

\* src/index.js is an ES module, where require is not defined: the
\* ReferenceError is caught and the answer is false.  src/unnamed/part_000 is
\* a CommonJS script, where require.resolve answers.
checkInquirerInstalled ==
    IF variant = "index" THEN FALSE ELSE inquirerAvailable

\* the switch of installInquirer
installCommand(pm) ==
    CASE pm = "npm"  -> "npm install inquirer --no-package-lock --no-save"
      [] pm = "yarn" -> "yarn add inquirer --ignore-engines"
      [] pm = "pnpm" -> "pnpm add inquirer --no-save"
      [] pm = "bun"  -> "bun add inquirer --no-save"
      [] OTHER       -> "unsupported"

\* src/unnamed/part_000: installInquirer runs the command with execSync in
\* the working directory and ends the process when it fails
installInquirer_part000 ==
    \E ok \in BOOLEAN :
        IF ok
        THEN /\ log' = log \o <<"selected", "install", "installed">>
             /\ pc' = "mkdir"
             /\ UNCHANGED <<timerVars, spinners, exited, exitCode>>
        ELSE /\ log' = log \o <<"selected", "install", "error:install">>
             /\ Exit(1)
             /\ UNCHANGED barVars

\* promptPackageManager and the main function up to its next await: the
\* import of inquirer is rejected when the package is missing, and nothing
\* handles the rejection
promptPackageManager ==
    /\ pc = "selectPM"
    /\ IF ~inquirerAvailable
       THEN /\ log' = Append(log, "error:import")
            /\ Exit(1)
            /\ UNCHANGED <<packageManager, barVars>>
       ELSE /\ \E answer \in choices : packageManager' = answer
            /\ IF checkInquirerInstalled
               THEN /\ log' = Append(log, "selected")
                    /\ spinners' = IF variant = "index"
                                   THEN spinners \cup {"Creating project"}
                                   ELSE spinners
                    /\ pc' = "mkdir"
                    /\ UNCHANGED <<timerVars, exited, exitCode>>
               ELSE IF variant = "index"
               THEN /\ log' = Append(log, "selected")
                    /\ spinners' = spinners \cup {"Preparing"}
                    /\ installBar' = 0
                    /\ installInterval' = TRUE
                    /\ pc' = "mkdtemp"
                    /\ UNCHANGED <<cloneBar, callerInterval, cloneInterval,
                                   exited, exitCode>>
               ELSE installInquirer_part000
    /\ UNCHANGED <<envVars, fs, projectName, lastLine, collided,
                   updatedPackageJson, clonePromise, settleCalls>>

\* src/index.js: the executor of installInquirer after its await of mkdtemp;
\* a rejection of mkdtemp rejects the promise of the async executor, which
\* nothing handles
installInquirer ==
    /\ pc = "mkdtemp"
    /\ \E tempDirCreated \in BOOLEAN :
          IF ~tempDirCreated
          THEN /\ log' = Append(log, "error:mkdtemp")
               /\ Exit(1)
          ELSE IF installCommand(packageManager) = "unsupported"
          THEN /\ log' = Append(log, "error:unsupported")
               /\ Exit(1)
          ELSE /\ log' = Append(log, "install")
               /\ pc' = "execInstall"
               /\ UNCHANGED <<installInterval, callerInterval, cloneInterval,
                              spinners, exited, exitCode>>
    /\ UNCHANGED <<envVars, fs, projectName, packageManager, lastLine, collided,
                   updatedPackageJson, barVars, clonePromise, settleCalls>>

\* the callback as a plausible slip would have it: the error of the install
\* command is reported and the promise resolved all the same
installInquirerCallback_resolvesOnError ==
    /\ pc = "execInstall"
    /\ \E error \in BOOLEAN :
          log' = IF error THEN Append(log, "error:install")
                 ELSE Append(log, "installed")
    /\ spinners' = spinners \cup {"Creating project"}
    /\ pc' = "mkdir"
    /\ UNCHANGED <<envVars, fs, projectName, packageManager, lastLine, collided,
                   updatedPackageJson, timerVars, clonePromise, settleCalls,
                   exited, exitCode>>

\* src/index.js: the callback of exec in installInquirer, and the main
\* function up to its await of fs.mkdir; the await of installInquirer is
\* outside the try block, so nothing handles its rejection
installInquirerCallback ==
    /\ pc = "execInstall"
    /\ \E error \in BOOLEAN :
          IF error
          THEN /\ log' = Append(log, "error:install")
               /\ Exit(1)
          ELSE /\ log' = Append(log, "installed")
               /\ spinners' = spinners \cup {"Creating project"}
               /\ pc' = "mkdir"
               /\ UNCHANGED <<installInterval, callerInterval, cloneInterval,
                              exited, exitCode>>
    /\ UNCHANGED <<envVars, fs, projectName, packageManager, lastLine, collided,
                   updatedPackageJson, barVars, clonePromise, settleCalls>>

\* src/index.js: the callback of the interval of the install step
installTick ==
    /\ installInterval
    /\ installBar' = installBar + InstallTickLen
    /\ installInterval' = ~(installBar' >= BarTotal)
    /\ UNCHANGED <<envVars, fs, projectName, packageManager, pc, lastLine, collided,
                   updatedPackageJson, cloneBar, callerInterval, cloneInterval,
                   spinners, clonePromise, settleCalls, exited, exitCode, log>>

----------------------------------------------------------------------------
(* Creating the directory and cloning the template *)

\* cloneRepo as a plausible slip would have it: the checkout runs in a try
\* block of its own that only reports the failure
cloneRepo_ignoresCheckoutFailure(f, l) ==
    \E result \in {"ok", "clone fails", "checkout fails"} :
        /\ result # "clone fails" => CanClone(f, projectName)
        /\ cloneBar' = 0
        /\ IF result = "clone fails"
           THEN /\ fs' = f
                /\ log' = l \o <<"clone", "error:clone">>
                /\ settleCalls' = settleCalls + 1
                /\ clonePromise' = "rejected"
                /\ Exit(1)
           ELSE /\ fs' = IF result = "ok"
                         THEN GitCheckout(GitClone(f, projectName), projectName)
                         ELSE GitClone(f, projectName)
                /\ log' = l \o <<"clone", "cloned", "checkout",
                                 IF result = "ok" THEN "checked out"
                                 ELSE "error:checkout">>
                /\ settleCalls' = settleCalls
                /\ clonePromise' = "pending"
                /\ callerInterval' = TRUE
                /\ cloneInterval' = TRUE
                /\ pc' = "cloning"
                /\ UNCHANGED <<installInterval, spinners, exited, exitCode>>

\* src/index.js: the executor of the promise of cloneRepo, run on the
\* filesystem f with the log l.  Both execSync calls block the event loop, so
\* no timer fires before the executor returns; a failure is rejected into the
\* catch block of the main function, which ends the process
cloneRepo(f, l) ==
    \E result \in {"ok", "clone fails", "checkout fails"} :
        /\ result # "clone fails" => CanClone(f, projectName)
        /\ cloneBar' = 0
        /\ settleCalls' = IF result = "ok" THEN settleCalls ELSE settleCalls + 1
        /\ clonePromise' = IF result = "ok" THEN "pending" ELSE "rejected"
        /\ CASE result = "ok" ->
                  /\ fs' = GitCheckout(GitClone(f, projectName), projectName)
                  /\ log' = l \o <<"clone", "cloned", "checkout", "checked out">>
                  /\ callerInterval' = TRUE
                  /\ cloneInterval' = TRUE
                  /\ pc' = "cloning"
                  /\ UNCHANGED <<installInterval, spinners, exited, exitCode>>
             [] result = "clone fails" ->
                  /\ fs' = f
                  /\ log' = l \o <<"clone", "error:clone">>
                  /\ Exit(1)
             [] result = "checkout fails" ->
                  /\ fs' = GitClone(f, projectName)
                  /\ log' = l \o <<"clone", "cloned", "checkout", "error:checkout">>
                  /\ Exit(1)

\* src/unnamed/part_000: cloneRepo runs git clone and ends the process when
\* it fails; the main function goes on to the readFile of updatePackageJson
cloneRepo_part000(f, l) ==
    \E cloned \in BOOLEAN :
        /\ cloned => CanClone(f, projectName)
        /\ IF cloned
           THEN /\ fs' = GitClone(f, projectName)
                /\ log' = l \o <<"clone", "cloned">>
                /\ pc' = "readPkg"
                /\ UNCHANGED <<installInterval, callerInterval, cloneInterval,
                               spinners, exited, exitCode>>
           ELSE /\ fs' = f
                /\ log' = l \o <<"clone", "error:clone">>
                /\ Exit(1)
        /\ UNCHANGED <<cloneBar, clonePromise, settleCalls>>

\* the main function after its await of fs.mkdir: a failure goes to the catch
\* block; otherwise the bar and the interval are created and cloneRepo is
\* called in the same turn
createDirectory ==
    /\ pc = "mkdir"
    /\ \E created \in BOOLEAN :
          IF ~created
          THEN /\ log' = Append(log, "error:mkdir")
               /\ Exit(1)
               /\ UNCHANGED <<fs, cloneBar, clonePromise, settleCalls>>
          ELSE LET f == MkdirRecursive(fs, targetDirOf(projectName))
                   l == Append(log, "mkdir")
               IN  IF variant = "index"
                   THEN cloneRepo(f, l)
                   ELSE cloneRepo_part000(f, l)
    /\ UNCHANGED <<envVars, projectName, packageManager, lastLine, collided,
                   updatedPackageJson, installBar>>

\* src/index.js: the callback of the interval of the main function
callerTick ==
    /\ callerInterval
    /\ cloneBar' = cloneBar + CallerTickLen
    /\ callerInterval' = ~(cloneBar' >= BarTotal)
    /\ UNCHANGED <<envVars, fs, projectName, packageManager, pc, lastLine, collided,
                   updatedPackageJson, installBar, installInterval,
                   cloneInterval, spinners, clonePromise, settleCalls, exited,
                   exitCode, log>>

\* the interval callback as a plausible slip would have it: it resolves on
\* its first tick, without looking at bar.complete
cloneTick_resolvesEarly ==
    /\ cloneInterval
    /\ cloneBar' = cloneBar + CloneTickLen
    /\ cloneInterval' = FALSE
    /\ settleCalls' = settleCalls + 1
    /\ clonePromise' = "resolved"
    /\ spinners' = spinners \cup {"Updating project files"}
    /\ pc' = "readPkg"
    /\ UNCHANGED <<envVars, fs, projectName, packageManager, lastLine, collided,
                   updatedPackageJson, installBar, installInterval,
                   callerInterval, exited, exitCode, log>>

\* src/index.js: the callback of the interval of cloneRepo; when the bar is
\* complete it resolves the promise, and the main function runs on to the
\* readFile of updatePackageJson
cloneTick ==
    /\ cloneInterval
    /\ cloneBar' = cloneBar + CloneTickLen
    /\ IF cloneBar' >= BarTotal
       THEN /\ cloneInterval' = FALSE
            /\ settleCalls' = settleCalls + 1
            /\ clonePromise' = IF clonePromise = "pending" THEN "resolved"
                               ELSE clonePromise
            /\ IF clonePromise = "pending"
               THEN /\ spinners' = spinners \cup {"Updating project files"}
                    /\ pc' = "readPkg"
               ELSE UNCHANGED <<spinners, pc>>
       ELSE UNCHANGED <<cloneInterval, settleCalls, clonePromise, spinners, pc>>
    /\ UNCHANGED <<envVars, fs, projectName, packageManager, lastLine, collided,
                   updatedPackageJson, installBar, installInterval,
                   callerInterval, exited, exitCode, log>>

----------------------------------------------------------------------------
(* Customizing package.json and reporting *)

\* updatePackageJson after its await of fs.readFile
updatePackageJson ==
    /\ pc = "readPkg"
    /\ LET d == targetDirOf(projectName)
       IN  \E read \in BOOLEAN :
              /\ read => d \in DOMAIN fs /\ fs[d].pkg # NoFile
              /\ IF read
                 THEN /\ updatedPackageJson' = ReplaceName(fs[d].pkg, projectName)
                      /\ pc' = "writePkg"
                      /\ UNCHANGED <<timerVars, spinners, exited, exitCode, log>>
                 ELSE /\ log' = Append(log, "error:read")
                      /\ Exit(1)
                      /\ UNCHANGED <<updatedPackageJson, barVars>>
    /\ UNCHANGED <<envVars, fs, projectName, packageManager, lastLine,
                   collided, clonePromise, settleCalls>>

\* the report of projectCreated; the outcome of the version check only
\* chooses between two messages
projectCreated(l) == Append(l, "report")

\* the end of updatePackageJson as a plausible slip would have it: the catch
\* block reports the failure and returns, so the main function goes on
updatePackageJsonWritten_returnsOnFailure ==
    /\ pc = "writePkg"
    /\ \E written \in BOOLEAN :
          IF written
          THEN /\ fs' = [fs EXCEPT ![targetDirOf(projectName)].pkg = updatedPackageJson]
               /\ log' = projectCreated(Append(log, "rewrite"))
          ELSE /\ fs' = fs
               /\ log' = projectCreated(Append(log, "error:write"))
    /\ pc' = "done"
    /\ UNCHANGED <<envVars, projectName, packageManager, lastLine, collided,
                   updatedPackageJson, timerVars, spinners, clonePromise,
                   settleCalls, exited, exitCode>>

\* updatePackageJson after its await of fs.writeFile, and the main function
\* to its end
updatePackageJsonWritten ==
    /\ pc = "writePkg"
    /\ \E written \in BOOLEAN :
          IF written
          THEN /\ fs' = [fs EXCEPT ![targetDirOf(projectName)].pkg = updatedPackageJson]
               /\ log' = projectCreated(Append(log, "rewrite"))
               /\ pc' = "done"
               /\ UNCHANGED <<timerVars, spinners, exited, exitCode>>
          ELSE /\ log' = Append(log, "error:write")
               /\ Exit(1)
               /\ UNCHANGED <<fs, barVars>>
    /\ UNCHANGED <<envVars, projectName, packageManager, lastLine, collided,
                   updatedPackageJson, clonePromise, settleCalls>>

----------------------------------------------------------------------------
(* The specifications *)

Next ==
    \/ start
    \/ promptForProjectName
    \/ promptForProjectName_part000
    \/ checkFolderExists
    \/ promptForNewProjectName
    \/ promptPackageManager
    \/ installInquirer
    \/ installInquirerCallback
    \/ installTick
    \/ createDirectory
    \/ callerTick
    \/ cloneTick
    \/ updatePackageJson
    \/ updatePackageJsonWritten
    \/ eventLoopExit

Spec == Init /\ [][Next]_vars

\* The clone step of src/index.js on its own: the run has reached the await
\* of fs.mkdir with the project name "aa", which no directory of the initial
\* filesystem collides with, before the install step's interval first fired
InitClone ==
    /\ variant = "index"
    /\ inquirerAvailable = TRUE
    /\ argv = <<"a", "a">>
    /\ fs0 \in InitialFs
    /\ fs = fs0
    /\ projectName = argv
    /\ packageManager \in choices
    /\ pc = "mkdir"
    /\ lastLine = <<>>
    /\ collided = NoDir
    /\ updatedPackageJson = <<>>
    /\ installBar = 0
    /\ installInterval = TRUE
    /\ cloneBar = 0
    /\ callerInterval = FALSE
    /\ cloneInterval = FALSE
    /\ spinners = {"Preparing", "Creating project"}
    /\ clonePromise = "none"
    /\ settleCalls = 0
    /\ exited = FALSE
    /\ exitCode = 0
    /\ log = <<"stat", "selected", "install", "installed">>

NextClone ==
    \/ installTick
    \/ createDirectory
    \/ callerTick
    \/ cloneTick
    \/ updatePackageJson
    \/ updatePackageJsonWritten

\* Timers fire and pending filesystem operations complete as long as the
\* process lives
CloneSpec ==
    /\ InitClone
    /\ [][NextClone]_vars
    /\ WF_vars(installTick)
    /\ WF_vars(createDirectory)
    /\ WF_vars(callerTick)
    /\ WF_vars(cloneTick)
    /\ WF_vars(updatePackageJson)
    /\ WF_vars(updatePackageJsonWritten)

\* updatePackageJson on its own: the run has reached the await of
\* fs.readFile, and the cloned package.json holds any text made of up to
\* MaxPieces pieces; the project name was given on the command line
UpdateNameChars == {"b", "$", "&", "1"}
UpdateNames     == SeqsUpTo(UpdateNameChars, MaxNameLen) \ {<<>>}

Pieces == {Key, <<"\"">>, <<"\"", "x", "\"">>, <<" ">>, <<"\n">>, <<"x">>}

RECURSIVE TextsUpTo(_)
TextsUpTo(n) ==
    IF n = 0 THEN {<<>>}
    ELSE LET shorter == TextsUpTo(n - 1)
         IN  shorter \cup {t \o p : t \in shorter, p \in Pieces}

InitUpdate ==
    /\ variant \in {"index", "part_000"}
    /\ inquirerAvailable = TRUE
    /\ argv \in UpdateNames
    /\ fs0 = (<<>> :> EmptyDir)
    /\ \E text \in TextsUpTo(MaxPieces) :
          fs = fs0 @@ (<<argv>> :>
                 [pkg  |-> text,
                  repo |-> IF variant = "index" THEN "stable" ELSE "default"])
    /\ projectName = argv
    /\ packageManager = "npm"
    /\ pc = "readPkg"
    /\ lastLine = <<>>
    /\ collided = NoDir
    /\ updatedPackageJson = <<>>
    /\ installBar = IF variant = "index" THEN BarTotal ELSE 0
    /\ installInterval = FALSE
    /\ cloneBar = IF variant = "index" THEN BarTotal + CloneTickLen ELSE 0
    /\ callerInterval = FALSE
    /\ cloneInterval = FALSE
    /\ spinners = IF variant = "index"
                  THEN {"Preparing", "Creating project", "Updating project files"}
                  ELSE {}
    /\ clonePromise = IF variant = "index" THEN "resolved" ELSE "none"
    /\ settleCalls = IF variant = "index" THEN 1 ELSE 0
    /\ exited = FALSE
    /\ exitCode = 0
    /\ log = IF variant = "index"
             THEN <<"stat", "selected", "install", "installed", "mkdir",
                    "clone", "cloned", "checkout", "checked out">>
             ELSE <<"stat", "selected", "mkdir", "clone", "cloned">>

NextUpdate ==
    \/ updatePackageJson
    \/ updatePackageJsonWritten

SpecUpdate == InitUpdate /\ [][NextUpdate]_vars

----------------------------------------------------------------------------
(* Reading the log *)

Has(e)   == \E i \in 1..Len(log) : log[i] = e
Count(e) == Cardinality({i \in 1..Len(log) : log[i] = e})
\* e and d both happened, e first
Before(e, d) == \E i, j \in 1..Len(log) : i < j /\ log[i] = e /\ log[j] = d

----------------------------------------------------------------------------
(* C8 *)

C8_Safety ==
    /\ clonePromise = "resolved" =>
          /\ Has("cloned") /\ Has("checked out")
          /\ cloneBar >= BarTotal
    /\ settleCalls <= 1

\* C8: in src/index.js the promise of cloneRepo is resolved only after the
\* clone and the checkout succeeded and the bar is complete, resolve or reject
\* is called at most once, and once the commands have succeeded the promise is
\* eventually resolved and both intervals are eventually cleared, whatever the
\* order in which the two timers fire
C8_CloneRepoSettles ==
    /\ [](variant = "index" => C8_Safety)
    /\ (clonePromise = "pending") ~> (clonePromise = "resolved")
    /\ (clonePromise = "pending") ~> (~callerInterval /\ ~cloneInterval)

\* the promise is resolved, the process lives, both intervals are cleared and
\* both timers have ticked the bar
C8_Witness ==
    /\ variant = "index"
    /\ clonePromise = "resolved"
    /\ ~exited
    /\ ~callerInterval /\ ~cloneInterval
    /\ cloneBar = BarTotal + CallerTickLen + CloneTickLen - 1

----------------------------------------------------------------------------
(* Helpers of the claims *)

AllWhiteSpace(line) == \A k \in 1..Len(line) : line[k] \in WhiteSpace

\* r is line without the white space at its two ends
IsTrimOf(r, line) ==
    \E i \in 1..(Len(line) + 1), j \in 0..Len(line) :
        /\ r = SubSeq(line, i, j)
        /\ \A k \in 1..(i - 1) : line[k] \in WhiteSpace
        /\ \A k \in (j + 1)..Len(line) : line[k] \in WhiteSpace
        /\ r # <<>> => r[1] \notin WhiteSpace /\ r[Len(r)] \notin WhiteSpace

CountIn(l, e) == Cardinality({i \in 1..Len(l) : l[i] = e})

\* text[i..j] is an occurrence of "name": followed by optional white space
\* and a quoted string on one line
IsOccurrence(t, i, j) ==
    /\ HasAt(t, i, Key)
    /\ \E q \in (i + Len(Key))..(j - 1) :
          /\ \A k \in (i + Len(Key))..(q - 1) : t[k] \in WhiteSpace
          /\ t[q] = "\""
          /\ t[j] = "\""
          /\ \A k \in (q + 1)..(j - 1) : t[k] \notin LineTerminator

\* the first occurrence: the leftmost start, and the nearest closing quote
IsFirstOccurrence(t, i, j) ==
    /\ IsOccurrence(t, i, j)
    /\ \A i2 \in 1..Len(t), j2 \in 1..Len(t) :
          IsOccurrence(t, i2, j2) => i < i2 \/ (i = i2 /\ j <= j2)

\* u is t with its first occurrence replaced by "name": "<name>", and t
\* itself when t has no occurrence
IsRenamed(t, name, u) ==
    IF \E i, j \in 1..Len(t) : IsOccurrence(t, i, j)
    THEN \E i, j \in 1..Len(t) :
            /\ IsFirstOccurrence(t, i, j)
            /\ u = SubSeq(t, 1, i - 1) \o Key \o <<" ", "\"">> \o name
                   \o <<"\"">> \o SubSeq(t, j + 1, Len(t))
    ELSE u = t

\* the value of the name field of a package.json text
NameField(t) ==
    IF \E i, j \in 1..Len(t) : IsOccurrence(t, i, j)
    THEN LET ij == CHOOSE ij \in (1..Len(t)) \X (1..Len(t)) :
                       IsFirstOccurrence(t, ij[1], ij[2])
             q  == CHOOSE q \in (ij[1] + Len(Key))..(ij[2] - 1) : t[q] = "\""
         IN  SubSeq(t, q + 1, ij[2] - 1)
    ELSE NoFile

Changed(p) == p \notin DOMAIN fs0 \/ p \notin DOMAIN fs \/ fs[p] # fs0[p]

NoIntervalActive == ~installInterval /\ ~callerInterval /\ ~cloneInterval

----------------------------------------------------------------------------
(* C1 *)

C1_Success == variant = "index" /\ ~Has("exists") /\ Has("report")

\* C1: a run of src/index.js without collision in which the selection, the
\* clone, the checkout and the update succeed leaves the directory
\* <cwd>/<project name> with the project name in its package.json, and the
\* process eventually terminates with exit code 0: after the report, no
\* interval and no spinner of the run stays active
C1_SuccessfulRunTerminates ==
    /\ [](C1_Success =>
            /\ targetDirOf(projectName) \in DOMAIN fs
            /\ NameField(fs[targetDirOf(projectName)].pkg) = projectName
            /\ exited => exitCode = 0)
    /\ C1_Success ~> (NoIntervalActive /\ spinners = {})

----------------------------------------------------------------------------
(* C2 *)

\* C2: updatePackageJson writes back the text it read with the first
\* occurrence of "name": "<anything>" replaced by the literal text
\* "name": "<project name>" and nothing else changed, and the same text when
\* there is no occurrence, for every text and every project name
C2_RenamesFirstOccurrenceOnly ==
    [][pc = "writePkg" /\ pc' = "done" =>
         IsRenamed(fs[targetDirOf(projectName)].pkg, projectName,
                   fs'[targetDirOf(projectName)].pkg)]_vars

----------------------------------------------------------------------------
(* C3 *)

C3_Untouched(entered) ==
    \A p \in DOMAIN fs \cup DOMAIN fs0 :
        Changed(p) => IsPrefix(p, targetDirOf(entered)) /\ ~IsPrefix(collided, p)

\* C3 as stated: after a collision and a name entered at the re-prompt, every
\* change of the filesystem is at <cwd>/<entered name>, and nothing in the
\* colliding directory is created, modified or deleted
C3_Original == Has("reprompt") => C3_Untouched(trim(lastLine))

\* C3 amended: the same, provided the name entered, once trimmed, holds no
\* white space and names a directory that is neither the colliding directory
\* nor inside it
C3_EnteredNameElsewhere ==
    ( /\ Has("reprompt")
      /\ \A k \in 1..Len(trim(lastLine)) : trim(lastLine)[k] \notin WhiteSpace
      /\ ~IsPrefix(collided, targetDirOf(trim(lastLine))) )
    => C3_Untouched(trim(lastLine))

\* the directory "a" collided, "aa" was entered, and the run reported the
\* project created in "aa"
C3_Witness ==
    /\ collided = <<<<"a">>>>
    /\ lastLine = <<"a", "a">>
    /\ Has("report")
    /\ Changed(<<<<"a", "a">>>>)
    /\ ~Changed(<<<<"a">>>>)

----------------------------------------------------------------------------
(* C4 *)

\* C4 as stated: when the directory exists checkFolderExists asks once and
\* returns the value entered next, unchecked; when it does not exist it
\* returns the given name without asking
C4_Original ==
    [][ /\ pc = "stat" =>
             IF targetDirOf(projectName) \in DOMAIN fs
             THEN pc' = "askNewName"
             ELSE pc' = "selectPM" /\ projectName' = projectName
                  /\ CountIn(log', "reprompt") = 0
        /\ pc = "askNewName" =>
             /\ pc' = "selectPM"
             /\ projectName' = lastLine'
             /\ CountIn(log', "reprompt") = 1 ]_vars

\* C4 amended: unless fs.stat fails with an error other than ENOENT, which
\* ends the process with exit code 1, checkFolderExists asks once when the
\* directory exists and returns the trimmed form of the value entered next,
\* an empty one included, unchecked; when no such directory exists it returns
\* the given name without asking
C4_ReturnsTrimmedReplacement ==
    [][ /\ pc = "stat" =>
             \/ /\ exited' /\ exitCode' = 1
                /\ log' = Append(log, "error:stat")
             \/ IF targetDirOf(projectName) \in DOMAIN fs
                THEN pc' = "askNewName"
                ELSE pc' = "selectPM" /\ projectName' = projectName
                     /\ CountIn(log', "reprompt") = 0
        /\ pc = "askNewName" =>
             /\ pc' = "selectPM"
             /\ IsTrimOf(projectName', lastLine')
             /\ CountIn(log', "reprompt") = 1 ]_vars

\* a blank was entered at the re-prompt, and the empty name was returned to
\* the main function
C4_Witness ==
    /\ pc = "selectPM"
    /\ Has("reprompt")
    /\ lastLine = <<" ">>
    /\ projectName = <<>>

----------------------------------------------------------------------------
(* C5 *)

\* C5: when the clone or the checkout command fails, the error is reported,
\* the process ends with exit code 1, neither command was run twice,
\* package.json was not rewritten, the completion report was not printed, and
\* the target directory is still there
C5_CloneFailureIsFatal ==
    (Has("error:clone") \/ Has("error:checkout")) =>
        /\ exited /\ exitCode = 1
        /\ Count("clone") = 1 /\ Count("checkout") <= 1
        /\ ~Has("rewrite") /\ ~Has("report")
        /\ targetDirOf(projectName) \in DOMAIN fs

\* the checkout failed after the run had created the target directory
C5_Witness ==
    /\ Has("error:checkout")
    /\ exited /\ exitCode = 1
    /\ targetDirOf(projectName) \notin DOMAIN fs0
    /\ targetDirOf(projectName) \in DOMAIN fs

----------------------------------------------------------------------------
(* C6 *)

\* C6: promptForProjectName of src/index.js asks again as long as the line
\* entered is empty once trimmed, and returns the trimmed form of the first
\* line that is not: a name that is not empty and has no white space at
\* either end
C6_PromptReturnsTrimmedName ==
    [][pc = "askName" /\ variant = "index" =>
         IF AllWhiteSpace(lastLine')
         THEN pc' = "askName" /\ projectName' = projectName
         ELSE /\ pc' = "stat"
              /\ IsTrimOf(projectName', lastLine')
              /\ projectName' # <<>>]_vars

\* a line with white space at both ends was entered, and its trimmed form is
\* the project name
C6_Witness ==
    /\ variant = "index"
    /\ Falsy(argv)
    /\ pc = "stat"
    /\ lastLine \in {<<" ", "a">>, <<"a", " ">>}
    /\ projectName = <<"a">>

----------------------------------------------------------------------------
(* C7 *)

\* the steps in the order of the main function
C7_Sequence == <<"stat", "selected", "install", "installed", "mkdir", "clone",
                 "cloned", "checkout", "checked out", "rewrite", "report">>

\* the place of each step in C7_Sequence
C7_Rank == [e \in {C7_Sequence[n] : n \in 1..Len(C7_Sequence)} |->
               CHOOSE n \in 1..Len(C7_Sequence) : C7_Sequence[n] = e]

\* the steps in the log are in the order of C7_Sequence, which also says that
\* none is there twice, and each one follows the steps it depends on
C7_Order ==
    /\ LET steps == SelectSeq(log, LAMBDA e : e \in DOMAIN C7_Rank)
       IN  \A i \in 1..(Len(steps) - 1) :
              C7_Rank[steps[i]] < C7_Rank[steps[i + 1]]
    /\ Has("selected") => Has("stat")
    /\ Has("install") => Has("selected")
    /\ Has("mkdir") => Has("selected")
    /\ Has("clone") => Has("mkdir")
    /\ Has("checkout") => Has("cloned")
    /\ Has("rewrite") => Has("cloned")
    /\ Has("report") => Has("rewrite")

\* C7 as stated: the steps happen once each and in the order collect name,
\* check collision, select, install, create directory, clone, customize,
\* report; package.json is rewritten only after both the clone and the
\* checkout succeeded
C7_Original ==
    /\ C7_Order
    /\ Has("rewrite") => Has("checked out")

\* C7 amended: the same, where the rewrite of package.json comes only after
\* the clone succeeded and, in src/index.js, which alone runs a checkout,
\* after the checkout succeeded
C7_LinearOrder ==
    /\ C7_Order
    /\ Has("rewrite") /\ variant = "index" => Has("checked out")
    /\ variant = "part_000" => ~Has("checkout")

\* a run of src/index.js that took every step
C7_Witness ==
    /\ variant = "index"
    /\ log = <<"stat", "selected", "install", "installed", "mkdir", "clone",
               "cloned", "checkout", "checked out", "rewrite", "report">>

----------------------------------------------------------------------------
(* C9 *)

C9_PastSelection ==
    /\ pc \notin {"start", "askName", "stat", "askNewName", "selectPM"}
    /\ ~Has("error:stat")

\* C9: the install command is run if and only if inquirer is not available:
\* never when it is available and the selection succeeded, and always, before
\* the target directory is created, when it is absent
C9_InstallIffInquirerMissing ==
    /\ Has("install") => ~inquirerAvailable
    /\ C9_PastSelection /\ ~inquirerAvailable => Has("install")
    /\ Has("install") /\ Has("mkdir") => Before("install", "mkdir")

----------------------------------------------------------------------------
(* C10 *)

C10_InstallFailed ==
    Has("error:install") \/ Has("error:mkdtemp") \/ Has("error:unsupported")

\* C10: in src/index.js, when the install step does not complete, the error
\* is reported and the process ends with a non-zero exit code, and the target
\* directory was not created nor the repository cloned
C10_InstallFailureIsFatal ==
    variant = "index" /\ C10_InstallFailed =>
        /\ exited /\ exitCode # 0
        /\ ~Has("mkdir") /\ ~Has("clone")
        /\ fs = fs0

\* the install command failed in a run of src/index.js
C10_Witness ==
    /\ variant = "index"
    /\ Has("error:install")
    /\ exited /\ exitCode = 1

====
